---- MODULE Spec2Model ----
(***************************************************************************)
(* A model of the Mu2eCI pull-request reconciliation pass:                 *)
(*   src/Mu2eCI/PRConditions.py  PRConditionsBuilder (the snapshot)        *)
(*   src/Mu2eCI/process_pr.py    process_pr (the decision stages)          *)
(*                                                                         *)
(* The external, durable state is the list of commit statuses on the       *)
(* PR's latest commit, the issue's labels and the issue's comments.  One   *)
(* pass reads it (Generate), decides and emits (Reconcile).                *)
(*                                                                         *)
(* Reading conventions.  process_pr.py is half way through a refactoring:  *)
(* it still reads a number of locals of the earlier inline version that    *)
(* PRConditions now holds.  The model binds each of them to the snapshot   *)
(* field that replaced it:                                                 *)
(*   trusted_user        -> prConditions.trustedAuthor                     *)
(*   not_seen_yet        -> prConditions.newPR                             *)
(*   test_requirements   -> prConditions.requiredTests                     *)
(*   legit_tests         -> prConditions.legit_tests                       *)
(*   master_commit_sha   -> prConditions.baseCommitSha                     *)
(*   bot_comments        -> prConditions.previousBotComments               *)
(*   future_commit       -> prConditions.future_commit                     *)
(*   last_commit         -> prConditions.lastCommit                        *)
(*   base_branch_HEAD_changed (line 471) -> doNotifyBaseHEADChanged, the   *)
(*       flag lines 132/138 compute and nothing else reads                 *)
(* and likewise commitStatusTime -> self.commitStatusTime and              *)
(* authorzedUsers -> authorizedUsers in PRConditions.py.  The comment      *)
(* loop of process_pr.py (lines 191-291) is commented out in the source    *)
(* and is therefore no part of the pass.                                   *)
(*                                                                         *)
(* Time is counted in units of 60 seconds.  A description is a sequence    *)
(* of words followed by an optional SHA; "x in description" is a search    *)
(* for a run of words.  A SHA is a sequence of digits.                     *)
(*                                                                         *)
(* Specifications.  Spec: passes interleaved with the build jobs'         *)
(* reports, moves of the base branch and the clock, from a PR nobody has   *)
(* touched.  HistorySpec and CommandSpec: passes over a PR found with      *)
(* statuses, a greeting or user comments already on it.  TimelineSpec:     *)
(* the status loop of the builder alone, over two statuses of one test.    *)
(* OverlapSpec: two passes over one PR, both snapshots built before either *)
(* pass creates or edits anything; there pc, prConditions and run hold one *)
(* value per pass.  CascadeSpec: the calls process_pr makes for the other  *)
(* open PRs of a PR just merged; there pr maps the repository's PRs to     *)
(* their state and pc is the stack of calls.  StagesSpec: one pass a step  *)
(* at a time, the status loop turn by turn and then each decision stage.   *)
(* FutureSpec: passes over a PR whose latest commit may be dated later     *)
(* than the clock.  CommentsSpec: the comment loop of                      *)
(* determineIfBotInvoked, one comment a step, over comments of any age.    *)
(***************************************************************************)
EXTENDS Integers, Sequences, FiniteSets, TLC

VARIABLES
    commitStatuses,   \* statuses of the PR's latest commit, in creation order
    issueLabels,      \* the issue's labels
    issueComments,    \* the issue's comments, in creation order
    baseHead,         \* SHA of the base branch's head
    now,              \* the clock
    pr,               \* what does not change about the PR and the configuration
    pc,               \* where the pass is: "idle", "built", "done", "aborted"
                      \* ("timeline" in TimelineSpec)
    dryRun,           \* the dryRun argument the bot is run with
    issue,            \* the pass's issue argument: the issue as the caller read it
    prConditions,     \* the snapshot of the pass
    run,              \* the locals of process_pr after its last stage
    ghost             \* history the properties are stated over

vars == <<commitStatuses, issueLabels, issueComments, baseHead, now, pr, pc,
          dryRun, issue, prConditions, run, ghost>>

external == <<commitStatuses, issueLabels, issueComments, baseHead, now>>

-----------------------------------------------------------------------------
(* Bounds *)

MaxTime == 2
MaxReports == 1
MaxMoves == 1
MaxPasses == 2

\* statuses of one test already on the commit when a drawn history begins
MaxHistory == 1

\* comments users have written when a drawn history begins
MaxCommands == 2

-----------------------------------------------------------------------------
(* Configuration and vocabulary *)

Tests == {"build", "validation"}

TestOrder == <<"build", "validation">>

UNRECOGNISED == "unrecognised"

LAST_TEST == "buildtest/last"

BOT == "bot"

ConfiguredAuthorised == {"dev"}

\* the commits of the base branch, oldest first
BaseCommits == <<(<<1, 1>>), (<<1, 2>>), (<<2, 1>>)>>

ShaIndex(sha) == CHOOSE i \in DOMAIN BaseCommits : BaseCommits[i] = sha

\* None
NoSha == <<0>>

\* a description that is no SHA at all
NotASha == <<9>>

ShortLen == 1

JobUrl == "job/1"

RepoUrl == "https://github.com/mu2e/repo"

FutureSlack == 2

CommitDates == {0}

GitStates == {"error", "failure", "pending", "success"}

\* config.main["labels"]["states"]: the two tables the model is run with.
StateLabelTables ==
    { [s \in GitStates |-> s],
      [s \in GitStates |-> CASE s = "success" -> "finished"
                             [] s = "failure" -> "failed"
                             [] OTHER -> s] }

\* test_suites.get_test_alias
get_test_alias(test) ==
    CASE test = "build" -> "mu2e/buildtest"
      [] test = "validation" -> "mu2e/validation"
      [] OTHER -> "mu2e/unknown"

LastContext == "mu2e/buildtest/last"

OtherContext == "ci/other"

Contexts == {get_test_alias(t) : t \in Tests} \cup {LastContext, OtherContext}

\* test_suites.get_test_name
get_test_name(context) ==
    IF \E t \in Tests : get_test_alias(t) = context
    THEN CHOOSE t \in Tests : get_test_alias(t) = context
    ELSE UNRECOGNISED

\* test_suites.get_stall_time
get_stall_time(name) == 1

-----------------------------------------------------------------------------
(* Descriptions *)

Desc(words, sha) == [words |-> words, sha |-> sha]

DescTriggered == Desc(<<"The", "test", "has", "been", "triggered", "in", "Jenkins">>, <<>>)

DescNotTriggered == Desc(<<"This", "test", "has", "not", "been", "triggered", "yet.">>, <<>>)

DescStalled ==
    Desc(<<"The", "job", "has", "stalled", "on", "Jenkins.", "It", "can", "be", "re-triggered.">>, <<>>)

LastTestWords == <<"Last", "test", "triggered", "against">>

Short(sha) == SubSeq(sha, 1, ShortLen)

DescLastTest(sha) == Desc(LastTestWords, Short(sha))

\* what the build jobs report
DescRunning == Desc(<<"The", "test", "is", "running">>, <<>>)

DescPassed == Desc(<<"The", "test", "passed">>, <<>>)

DescFailed == Desc(<<"The", "test", "failed">>, <<>>)

\* "phrase in description"
Contains(description, phrase) ==
    \E i \in 1..(Len(description.words) - Len(phrase) + 1) :
        SubSeq(description.words, i, i + Len(phrase) - 1) = phrase

\* description.replace("Last test triggered against ", "")
StripLastTest(description) ==
    IF description.words = LastTestWords THEN description.sha ELSE NotASha

\* a == b
StartsWith_Equal(a, b) == a = b

\* a.startswith(b)
StartsWith(a, b) == Len(b) <= Len(a) /\ SubSeq(a, 1, Len(b)) = b

-----------------------------------------------------------------------------
(* Dictionaries *)

EmptyDict == [k \in {} |-> TRUE]

Put(d, k, v) == [x \in (DOMAIN d) \cup {k} |-> IF x = k THEN v ELSE d[x]]

Truthy(d, k) == k \in DOMAIN d /\ d[k]

Range(s) == {s[i] : i \in DOMAIN s}

RECURSIVE SeqOfSet(_)
SeqOfSet(S) ==
    IF S = {} THEN <<>>
    ELSE LET x == CHOOSE y \in S : TRUE IN <<x>> \o SeqOfSet(S \ {x})

\* the members of S in the order of TestOrder
InOrder(S) == SelectSeq(TestOrder, LAMBDA t : t \in S)

-----------------------------------------------------------------------------
(* PRConditionsBuilder *)

Status(context, state, description, url, t) ==
    [context |-> context, state |-> state, description |-> description,
     target_url |-> url, updated_at |-> t]

\* PRConditionsBuilder.__init__ and determineAuthorizations; requiredTests is
\* what test_suites.get_tests_for gives for the PR's modified folders
NewBuilder(base) ==
    [ trustedAuthor |-> pr.trustedAuthor,
      authorizedUsers |-> ConfiguredAuthorised
                          \cup (IF pr.trustedAuthor THEN {"author"} ELSE {}),
      requiredTests |-> pr.requiredTests,
      baseCommitSha |-> base,
      baseCommitSha_lastTest |-> NoSha,
      commitStatusTime |-> EmptyDict,
      baseHeadChanged |-> FALSE,
      future_commit |-> FALSE,
      future_commit_timedelta |-> 0,
      prev_test_statuses |-> EmptyDict,
      test_urls |-> EmptyDict,
      test_triggered |-> EmptyDict,
      test_status_exists |-> EmptyDict,
      tests_already_triggered |-> <<>>,
      legit_tests |-> {},
      lastCommitDate |-> pr.lastCommitDate,
      newPR |-> TRUE,
      lastTimeSeen |-> -1,
      previousBotComments |-> {},
      botInvokingComments |-> <<>>,
      testTriggerResults |-> <<>>,
      testsRequested |-> <<>>,
      extraEnvs |-> <<>> ]

\* _logCommitInfo
LogCommitInfo(b, clock) ==
    IF b.lastCommitDate > clock /\ b.lastCommitDate - clock > FutureSlack
    THEN [b EXCEPT !.future_commit = TRUE,
                   !.future_commit_timedelta = b.lastCommitDate - clock]
    ELSE b

\* no status is ever stale
IsStale_Never(b, name, stat) == FALSE

\* the staleness test of lines 242 and 181-184
IsStale(b, name, stat) ==
    name \in DOMAIN b.commitStatusTime /\ b.commitStatusTime[name] > stat.updated_at

\* _checkIfHeadChangedSinceLastTest
CheckIfHeadChangedSinceLastTest(b, stat) ==
    IF IsStale(b, LAST_TEST, stat) THEN b
    ELSE LET sha == StripLastTest(stat.description) IN
         [b EXCEPT !.commitStatusTime = Put(@, LAST_TEST, stat.updated_at),
                   !.baseCommitSha_lastTest = sha,
                   !.baseHeadChanged = ~StartsWith(b.baseCommitSha, sha)]

\* lines 258-262 without `or ("running" in stat.description)`
IsTriggered_NoRunning(stat) ==
    \/ Contains(stat.description, <<"has", "been", "triggered">>)
    \/ stat.state \in {"success", "failure"}

\* lines 258-262
IsTriggered(stat) ==
    \/ Contains(stat.description, <<"has", "been", "triggered">>)
    \/ stat.state \in {"success", "failure"}
    \/ Contains(stat.description, <<"running">>)

\* lines 266-270
DescriptionLabels(b, name, stat) ==
    LET b1 == IF Contains(stat.description, <<"running">>)
              THEN [b EXCEPT !.prev_test_statuses = Put(@, name, "running"),
                             !.test_urls = Put(@, name, stat.target_url)]
              ELSE b
    IN IF Contains(stat.description, <<"stalled">>)
       THEN [b1 EXCEPT !.prev_test_statuses = Put(@, name, "stalled")]
       ELSE b1

\* the flag written whatever it was
AlreadyTriggered_Never(b, name) == FALSE

\* lines 253-256: "if already True, don't change it"
AlreadyTriggered(b, name) == Truthy(b.test_triggered, name)

\* the body of the loop without the `continue` of lines 239-240
RecordStatus_KeepsUnrecognised(b, stat) ==
    LET name == get_test_name(stat.context) IN
    IF stat.context = LastContext THEN CheckIfHeadChangedSinceLastTest(b, stat)
    ELSE IF IsStale(b, name, stat) THEN b
    ELSE LET b1 == [b EXCEPT
                      !.commitStatusTime = Put(@, name, stat.updated_at),
                      !.prev_test_statuses =
                          Put(@, name, IF stat.state \in DOMAIN pr.state_labels
                                       THEN pr.state_labels[stat.state]
                                       ELSE stat.state),
                      !.legit_tests = @ \cup {name},
                      !.test_status_exists = Put(@, name, TRUE)]
         IN IF AlreadyTriggered(b, name) THEN b1
            ELSE DescriptionLabels(
                    [b1 EXCEPT !.test_triggered = Put(@, name, IsTriggered(stat))],
                    name, stat)

\* the body of the loop of determineCommitInfoAndTestStatus (lines 233-270)
RecordStatus(b, stat) ==
    LET name == get_test_name(stat.context) IN
    IF stat.context = LastContext THEN CheckIfHeadChangedSinceLastTest(b, stat)
    ELSE IF name = UNRECOGNISED THEN b
    ELSE IF IsStale(b, name, stat) THEN b
    ELSE LET b1 == [b EXCEPT
                      !.commitStatusTime = Put(@, name, stat.updated_at),
                      !.prev_test_statuses =
                          Put(@, name, IF stat.state \in DOMAIN pr.state_labels
                                       THEN pr.state_labels[stat.state]
                                       ELSE stat.state),
                      !.legit_tests = @ \cup {name},
                      !.test_status_exists = Put(@, name, TRUE)]
         IN IF AlreadyTriggered(b, name) THEN b1
            ELSE DescriptionLabels(
                    [b1 EXCEPT !.test_triggered = Put(@, name, IsTriggered(stat))],
                    name, stat)

-----------------------------------------------------------------------------
(* Comments *)

Comment(user, body, t) == [user |-> user, body |-> body, created_at |-> t]

\* what a user writes: a command naming tests, a command naming a test that
\* does not exist, a mention of the bot with no command, text that breaks
\* the parser, or talk that does not mention the bot
UserBodies ==
    { [text |-> "run", tests |-> <<"build">>, env |-> "{}"],
      [text |-> "run", tests |-> <<"build", "validation">>, env |-> "{K=V}"],
      [text |-> "badtest", tests |-> <<>>, env |-> "{}"],
      [text |-> "mention", tests |-> <<>>, env |-> "{}"],
      [text |-> "broken", tests |-> <<>>, env |-> "{}"],
      [text |-> "talk", tests |-> <<>>, env |-> "{}"] }

TestTriggerResult ==
    [NOCOMMAND |-> "nocommand", INVALIDINPUT |-> "invalidinput",
     GENERICFAIL |-> "genericfail", SUCCESS |-> "success"]

\* common.check_test_cmd_mu2e: what it raises, or (trigger_search, mentioned)
check_test_cmd_mu2e(body) ==
    CASE body.text = "run" ->
            [raises |-> "None", found |-> TRUE, tests |-> body.tests,
             extra_env |-> body.env, mentioned |-> TRUE]
      [] body.text = "badtest" ->
            [raises |-> "ValueError", found |-> FALSE, tests |-> <<>>,
             extra_env |-> "None", mentioned |-> FALSE]
      [] body.text = "broken" ->
            [raises |-> "Exception", found |-> FALSE, tests |-> <<>>,
             extra_env |-> "None", mentioned |-> FALSE]
      [] body.text = "mention" ->
            [raises |-> "None", found |-> FALSE, tests |-> <<>>,
             extra_env |-> "None", mentioned |-> TRUE]
      [] OTHER ->
            [raises |-> "None", found |-> FALSE, tests |-> <<>>,
             extra_env |-> "None", mentioned |-> FALSE]

\* determineIfNew
determineIfNew(b, comments) ==
    LET botTimes == {comments[i].created_at :
                        i \in {j \in DOMAIN comments : comments[j].user = BOT}}
    IN [b EXCEPT !.newPR = (botTimes = {}),
                 !.lastTimeSeen = IF botTimes = {} THEN -1
                                  ELSE CHOOSE t \in botTimes : \A u \in botTimes : u <= t]

\* _shouldIgnoreComment with `comment.created_at <= self.lastTimeSeen`
ShouldIgnoreComment_SeenAtOnce(b, comment) ==
    \/ comment.created_at < b.lastCommitDate
    \/ (b.lastTimeSeen # -1 /\ comment.created_at <= b.lastTimeSeen)
    \/ comment.user \notin b.authorizedUsers
    \/ comment.user = BOT

\* _shouldIgnoreComment
ShouldIgnoreComment(b, comment) ==
    \/ comment.created_at < b.lastCommitDate
    \/ (b.lastTimeSeen # -1 /\ comment.created_at < b.lastTimeSeen)
    \/ comment.user \notin b.authorizedUsers
    \/ comment.user = BOT

\* the body of the loop of determineIfBotInvoked (lines 326-373)
InvokeComment(b, comment) ==
    LET b1 == IF comment.user = BOT
              THEN [b EXCEPT !.previousBotComments = @ \cup {comment.body}]
              ELSE b
    IN IF ShouldIgnoreComment(b1, comment) THEN b1
       ELSE LET r == check_test_cmd_mu2e(comment.body)
                raised == CASE r.raises = "ValueError" -> TestTriggerResult.INVALIDINPUT
                            [] r.raises = "Exception" -> TestTriggerResult.GENERICFAIL
                            [] OTHER -> "None"
                result == IF r.found THEN TestTriggerResult.SUCCESS
                          ELSE IF raised = "None" THEN TestTriggerResult.GENERICFAIL
                          ELSE raised
                requested == IF r.found THEN [tag |-> "tests", tests |-> r.tests]
                             ELSE IF r.mentioned
                             THEN [tag |-> TestTriggerResult.NOCOMMAND, tests |-> <<>>]
                             ELSE [tag |-> "None", tests |-> <<>>]
            IN [b1 EXCEPT !.botInvokingComments = Append(@, comment),
                          !.testsRequested = Append(@, requested),
                          !.testTriggerResults = Append(@, result),
                          !.extraEnvs = Append(@, IF r.found THEN r.extra_env ELSE "None")]

RECURSIVE InvokeAll(_, _)
InvokeAll(b, comments) ==
    IF comments = <<>> THEN b
    ELSE InvokeAll(InvokeComment(b, Head(comments)), Tail(comments))

\* determineIfBotInvoked
determineIfBotInvoked(b, comments) == InvokeAll(b, comments)

-----------------------------------------------------------------------------
(* process_pr: the decision stages *)

\* lines 90-97.  test_triggered, test_statuses and test_status_exists are
\* bound to the snapshot's own dictionaries (s.c): a write through them is a
\* write to the snapshot.
Locals(c) ==
    [ c |-> c,
      tests_already_triggered |-> c.tests_already_triggered,
      doNotifyBaseHEADChanged |-> FALSE,
      stalled_jobs |-> <<>>,
      stalled_job_info |-> <<>>,
      tests_to_trigger |-> <<>>,
      jobs_have_stalled |-> FALSE,
      labels |-> {},
      effects |-> <<>> ]

test_triggered(s) == s.c.test_triggered

test_statuses(s) == s.c.prev_test_statuses

test_status_exists(s) == s.c.test_status_exists

\* test_triggered[name] = ...; test_statuses[name] = ...; test_status_exists[name] = False
ResetTest(s, name, status) ==
    [s EXCEPT !.c.test_triggered = Put(@, name, FALSE),
              !.c.prev_test_statuses = Put(@, name, status),
              !.c.test_status_exists = Put(@, name, FALSE)]

\* the condition of lines 119-124 without `not prConditions.newPR`
BaseHeadResetDue_AnyPR(c) ==
    /\ (c.baseCommitSha_lastTest = NoSha \/ c.baseHeadChanged)
    /\ "build" \in DOMAIN c.prev_test_statuses
    /\ c.prev_test_statuses["build"] # "pending"

\* the condition of lines 119-124
BaseHeadResetDue(c) ==
    /\ (c.baseCommitSha_lastTest = NoSha \/ c.baseHeadChanged)
    /\ ~c.newPR
    /\ "build" \in DOMAIN c.prev_test_statuses
    /\ c.prev_test_statuses["build"] # "pending"

\* lines 119-138 without `test_triggered["build"] = False`
BaseHeadReset_KeepsFlag(s) ==
    IF BaseHeadResetDue(s.c)
    THEN [s EXCEPT !.c.prev_test_statuses = Put(@, "build", "pending"),
                   !.c.test_status_exists = Put(@, "build", FALSE),
                   !.doNotifyBaseHEADChanged = TRUE]
    ELSE s

\* lines 119-138
BaseHeadReset(s) ==
    IF BaseHeadResetDue(s.c)
    THEN [ResetTest(s, "build", "pending") EXCEPT !.doNotifyBaseHEADChanged = TRUE]
    ELSE s

\* the condition of lines 146-159 with `test_runtime >= get_stall_time(name)`
HasStalled_AtThreshold(s, name, clock) ==
    /\ name \in s.c.legit_tests
    /\ s.c.prev_test_statuses[name] \in {"running", "pending"}
    /\ Truthy(s.c.test_triggered, name)
    /\ clock - s.c.commitStatusTime[name] >= get_stall_time(name)

\* the condition of lines 146-159 for one test
HasStalled(s, name, clock) ==
    /\ name \in s.c.legit_tests
    /\ s.c.prev_test_statuses[name] \in {"running", "pending"}
    /\ Truthy(s.c.test_triggered, name)
    /\ clock - s.c.commitStatusTime[name] > get_stall_time(name)

\* lines 160-169
StallTest(s, name) ==
    [ResetTest(s, name, "stalled") EXCEPT
        !.stalled_jobs = Append(@, name),
        !.stalled_job_info = IF name \in DOMAIN s.c.test_urls
                             THEN Append(@, <<name, s.c.test_urls[name]>>)
                             ELSE @]

RECURSIVE StallLoop(_, _, _)
StallLoop(s, names, clock) ==
    IF names = <<>> THEN s
    ELSE StallLoop(IF HasStalled(s, Head(names), clock) THEN StallTest(s, Head(names)) ELSE s,
                   Tail(names), clock)

\* lines 144-171
StallDetection(s, clock) == StallLoop(s, InOrder(DOMAIN s.c.prev_test_statuses), clock)

\* the condition of lines 175-181 with `and not prConditions.newPR`
OrphanResetDue_NotNew(c) ==
    /\ "build" \in c.legit_tests
    /\ c.baseCommitSha_lastTest = NoSha
    /\ ~c.newPR
    /\ "build" \in DOMAIN c.prev_test_statuses
    /\ c.prev_test_statuses["build"] \in {"success", "finished", "error", "failure"}

\* the condition of lines 175-181
OrphanResetDue(c) ==
    /\ "build" \in c.legit_tests
    /\ c.baseCommitSha_lastTest = NoSha
    /\ "build" \in DOMAIN c.prev_test_statuses
    /\ c.prev_test_statuses["build"] \in {"success", "finished", "error", "failure"}

\* lines 175-188
OrphanReset(s) ==
    IF OrphanResetDue(s.c) THEN ResetTest(s, "build", "pending") ELSE s

Queued(s) == {s.tests_to_trigger[i][1] : i \in DOMAIN s.tests_to_trigger}

\* lines 298-301 without `test_triggered[test] = True`
TriggerDefault_NotFlagged(s, test) ==
    [s EXCEPT !.c.prev_test_statuses = Put(@, test, "pending"),
              !.tests_to_trigger = IF test \in Queued(s) THEN @
                                   ELSE Append(@, <<test, "{}">>)]

\* lines 298-301 for one test
TriggerDefault(s, test) ==
    [s EXCEPT !.c.prev_test_statuses = Put(@, test, "pending"),
              !.c.test_triggered = Put(@, test, TRUE),
              !.tests_to_trigger = IF test \in Queued(s) THEN @
                                   ELSE Append(@, <<test, "{}">>)]

RECURSIVE TriggerLoop(_, _)
TriggerLoop(s, tests) ==
    IF tests = <<>> THEN s
    ELSE TriggerLoop(TriggerDefault(s, Head(tests)), Tail(tests))

\* lines 295-301
DefaultTrigger(s, dry) ==
    IF s.c.trustedAuthor /\ s.c.newPR /\ ~dry /\ pr.AUTO_TRIGGER_ON_OPEN
    THEN TriggerLoop(s, InOrder(s.c.requiredTests))
    ELSE s

\* the stages that reset tests, lines 90-188
Resets(c, clock) == OrphanReset(StallDetection(BaseHeadReset(Locals(c)), clock))

\* the decision stages, lines 90-301
Decide(c, dry, clock) == DefaultTrigger(Resets(c, clock), dry)

-----------------------------------------------------------------------------
(* process_pr: statuses, labels and comments *)

Label(test, state) == <<test, state>>

StatusEffect(context, state, description) ==
    [kind |-> "status", context |-> context, state |-> state,
     description |-> description, target_url |-> RepoUrl]

\* create_properties_file_for_test: the test is handed to the build queue
PropertiesEffect(test, base, env) ==
    [kind |-> "properties", test |-> test, base |-> base, env |-> env]

LabelsEffect(labels) == [kind |-> "labels", labels |-> labels]

\* post_on_pr(issue, body, bot_comments): `posted` is false when the body is
\* already among the bot's comments
CommentEffect(body, bot_comments) ==
    [kind |-> "comment", body |-> body, posted |-> body \notin bot_comments]

\* the text of a comment: the message template and what fills it
Body(msg) ==
    [msg |-> msg, required |-> <<>>, queued |-> <<>>, already |-> <<>>,
     info |-> <<>>, sha |-> <<>>, delta |-> 0, member |-> TRUE]

Emit(s, e) == [s EXCEPT !.effects = Append(@, e)]

EnvOf(s, test) ==
    LET i == CHOOSE j \in DOMAIN s.tests_to_trigger :
                /\ s.tests_to_trigger[j][1] = test
                /\ \A k \in DOMAIN s.tests_to_trigger :
                      s.tests_to_trigger[k][1] = test => j <= k
    IN s.tests_to_trigger[i][2]

\* lines 315-349 with the two create_status calls in the other order
TriggerTest_SentinelLast(s, test, dry) ==
    LET s1 == Emit(s, PropertiesEffect(test, s.c.baseCommitSha, EnvOf(s, test)))
        s2 == IF ~dry
              THEN Emit(s1, StatusEffect(get_test_alias(test), "pending", DescTriggered))
              ELSE s1
    IN IF ~dry /\ test = "build"
       THEN Emit(s2, StatusEffect(LastContext, "success", DescLastTest(s.c.baseCommitSha)))
       ELSE s2

\* lines 315-349
TriggerTest(s, test, dry) ==
    LET s1 == Emit(s, PropertiesEffect(test, s.c.baseCommitSha, EnvOf(s, test)))
        s2 == IF ~dry /\ test = "build"
              THEN Emit(s1, StatusEffect(LastContext, "success",
                                         DescLastTest(s.c.baseCommitSha)))
              ELSE s1
    IN IF ~dry
       THEN Emit(s2, StatusEffect(get_test_alias(test), "pending", DescTriggered))
       ELSE s2

\* lines 356-364
AnnounceStall(s, test) ==
    [Emit(s, StatusEffect(get_test_alias(test), "error", DescStalled))
        EXCEPT !.jobs_have_stalled = TRUE]

\* lines 366-385 without `if not dryRun`
AnnouncePending_AlsoDry(s, test, state, dry) ==
    Emit([s EXCEPT !.labels = @ \cup {Label(test, state)}],
         StatusEffect(get_test_alias(test), "pending", DescNotTriggered))

\* lines 366-385
AnnouncePending(s, test, state, dry) ==
    LET s1 == [s EXCEPT !.labels = @ \cup {Label(test, state)}]
    IN IF ~dry
       THEN Emit(s1, StatusEffect(get_test_alias(test), "pending", DescNotTriggered))
       ELSE s1

\* the body of the loop of lines 311-387
Materialize(s, test, dry) ==
    LET state == test_statuses(s)[test]
        s1 == IF test \in s.c.legit_tests
              THEN [s EXCEPT !.labels = @ \cup {Label(test, state)}]
              ELSE s
    IN IF test \in Queued(s) THEN TriggerTest(s1, test, dry)
       ELSE IF state = "pending" /\ test_status_exists(s)[test] THEN s1
       ELSE IF state = "stalled" /\ ~test_status_exists(s)[test] THEN AnnounceStall(s1, test)
       ELSE IF state = "pending" /\ ~test_triggered(s)[test] /\ ~test_status_exists(s)[test]
       THEN AnnouncePending(s1, test, state, dry)
       ELSE s1

RECURSIVE MaterializeLoop(_, _, _)
MaterializeLoop(s, tests, dry) ==
    IF tests = <<>> THEN s
    ELSE MaterializeLoop(Materialize(s, Head(tests), dry), Tail(tests), dry)

\* lines 389-394; labelnames are the issue's labels
UpdateLabels(s, labelnames, dry) ==
    IF labelnames # s.labels /\ ~dry THEN Emit(s, LabelsEffect(s.labels)) ELSE s

QueuedTests(s) == [i \in DOMAIN s.tests_to_trigger |-> s.tests_to_trigger[i][1]]

\* lines 413-424
TestsTriggeredMsg(s) ==
    [Body("TESTS_TRIGGERED_CONFIRMATION") EXCEPT
        !.queued = QueuedTests(s), !.already = s.tests_already_triggered]

\* lines 427-445
Salutation(s) ==
    [Body("PR_SALUTATION") EXCEPT
        !.required = InOrder(s.c.requiredTests),
        !.queued = QueuedTests(s),
        !.already = IF Len(s.tests_to_trigger) > 0 THEN s.tests_already_triggered ELSE <<>>,
        !.member = s.c.trustedAuthor]

\* lines 427-461 with `if` for the `elif` of line 448
Announce_NoElif(s, dry) ==
    LET s1 == IF s.c.newPR /\ ~dry
              THEN Emit(s, CommentEffect(Salutation(s), s.c.previousBotComments))
              ELSE s
    IN IF Len(s.tests_to_trigger) > 0 /\ ~dry
       THEN Emit(s1, CommentEffect(TestsTriggeredMsg(s), s.c.previousBotComments))
       ELSE s1

\* lines 427-461
Announce(s, dry) ==
    IF s.c.newPR
    THEN IF ~dry THEN Emit(s, CommentEffect(Salutation(s), s.c.previousBotComments)) ELSE s
    ELSE IF Len(s.tests_to_trigger) > 0
    THEN IF ~dry THEN Emit(s, CommentEffect(TestsTriggeredMsg(s), s.c.previousBotComments))
         ELSE s
    ELSE IF Len(s.tests_already_triggered) > 0
    THEN IF ~dry
         THEN Emit(s, CommentEffect(
                        [Body("TESTS_ALREADY_TRIGGERED") EXCEPT
                            !.already = s.tests_already_triggered],
                        s.c.previousBotComments))
         ELSE s
    ELSE s

\* lines 463-470
AnnounceStalls(s, dry) ==
    IF s.jobs_have_stalled /\ ~dry
    THEN Emit(s, CommentEffect(
                   [Body("JOB_STALL_MESSAGE") EXCEPT
                       !.queued = s.stalled_jobs, !.info = s.stalled_job_info],
                   s.c.previousBotComments))
    ELSE s

\* lines 471-478
AnnounceBaseChange(s, dry) ==
    IF s.doNotifyBaseHEADChanged /\ ~dry /\ ~(Len(s.tests_to_trigger) > 0)
    THEN Emit(s, CommentEffect(
                   [Body("BASE_BRANCH_HEAD_CHANGED") EXCEPT !.sha = s.c.baseCommitSha],
                   s.c.previousBotComments))
    ELSE s

\* lines 479-487
AnnounceFutureCommit(s, dry) ==
    IF /\ "build" \in DOMAIN test_status_exists(s)
       /\ s.c.future_commit /\ ~test_status_exists(s)["build"] /\ ~dry
    THEN Emit(s, CommentEffect(
                   [Body("FUTURE_COMMIT") EXCEPT !.delta = s.c.future_commit_timedelta],
                   s.c.previousBotComments))
    ELSE s

\* lines 308-487
Act(s, labelnames, dry) ==
    AnnounceFutureCommit(
      AnnounceBaseChange(
        AnnounceStalls(
          Announce(
            UpdateLabels(
              MaterializeLoop(s, InOrder(DOMAIN test_statuses(s)), dry),
              labelnames, dry),
            dry),
          dry),
        dry),
      dry)

\* process_pr from line 78 on, given the snapshot
process_pr(c, labelnames, dry, clock) == Act(Decide(c, dry, clock), labelnames, dry)

-----------------------------------------------------------------------------
(* The state machine *)

NoPass == [built |-> "None", raised |-> FALSE, atStart |-> <<>>, repeat |-> FALSE,
           wasStalled |-> {}]

NoGhost ==
    [ passes |-> 0,          \* passes started
      pass |-> NoPass,       \* of the current pass: the snapshot as generate returned it,
                             \* whether generate raised, the external state when the
                             \* pass began, whether it follows a pass with nothing in
                             \* between, and the tests that were stalled when it began
      reports |-> 0,         \* build job reports so far
      moves |-> 0,           \* moves of the base branch so far
      quiet |-> FALSE,       \* nothing outside the bot has happened since the last pass ended
      stalled |-> {} ]       \* tests a pass reset to stalled, with no later report on them

Init ==
    /\ pr \in { p \in [ trustedAuthor : BOOLEAN,
                        requiredTests : {Tests},
                        lastCommitDate : CommitDates,
                        AUTO_TRIGGER_ON_OPEN : BOOLEAN,
                        state_labels : StateLabelTables ] :
                  p.trustedAuthor \/ p.AUTO_TRIGGER_ON_OPEN }
    /\ commitStatuses = <<>>
    /\ issueLabels = {}
    /\ issueComments = <<>>
    /\ baseHead = BaseCommits[1]
    /\ now = 0
    /\ pc = "idle"
    /\ dryRun \in BOOLEAN
    /\ issue = [labels |-> {}]
    /\ prConditions = NewBuilder(baseHead)
    /\ run = Locals(prConditions)
    /\ ghost = NoGhost

\* no pass is running: process_pr has not been called, or has returned
Returned == pc \in {"idle", "done", "aborted"}

\* the locals of a pass that has returned are gone
Forget ==
    /\ pc' = "idle"
    /\ prConditions' = NewBuilder(BaseCommits[1])
    /\ run' = Locals(prConditions')
    /\ issue' = [labels |-> {}]

\* time passes
Tick ==
    /\ Returned
    /\ now < MaxTime
    /\ now' = now + 1
    /\ ghost' = [ghost EXCEPT !.quiet = FALSE, !.pass = NoPass]
    /\ Forget
    /\ UNCHANGED <<commitStatuses, issueLabels, issueComments, baseHead, pr, dryRun>>

JenkinsReports ==
    { [state |-> "pending", description |-> DescRunning],
      [state |-> "success", description |-> DescPassed],
      [state |-> "failure", description |-> DescFailed] }

\* the tests the build jobs report on by themselves
ReportedTests == {"build"}

\* a build job reports on a test
JenkinsReport ==
    /\ Returned
    /\ ghost.reports < MaxReports
    /\ \E test \in ReportedTests, r \in JenkinsReports :
          /\ commitStatuses' = Append(commitStatuses,
                  Status(get_test_alias(test), r.state, r.description, JobUrl, now))
          /\ ghost' = [ghost EXCEPT !.quiet = FALSE, !.stalled = @ \ {test},
                                    !.reports = @ + 1, !.pass = NoPass]
    /\ Forget
    /\ UNCHANGED <<issueLabels, issueComments, baseHead, now, pr, dryRun>>

\* the base branch moves on to a later commit
BaseMoves ==
    /\ Returned
    /\ ghost.moves < MaxMoves
    /\ \E i \in DOMAIN BaseCommits : i > ShaIndex(baseHead) /\ baseHead' = BaseCommits[i]
    /\ ghost' = [ghost EXCEPT !.quiet = FALSE, !.moves = @ + 1, !.pass = NoPass]
    /\ Forget
    /\ UNCHANGED <<commitStatuses, issueLabels, issueComments, now, pr, dryRun>>

\* The builders the loop of determineCommitInfoAndTestStatus can end in, one
\* for each order in which get_statuses may list the statuses.  A status
\* reads and writes only the entries of its own context's name, so the
\* orders are enumerated context by context.
RECURSIVE Populate(_, _, _)
Populate(builders, stats, left) ==
    IF left = 0 THEN {p[1] : p \in builders}
    ELSE Populate(UNION {{<<RecordStatus(p[1], stats[i]), p[2] \ {i}>> : i \in p[2]} :
                            p \in builders},
                  stats, left - 1)

RECURSIVE PopulateContexts(_, _, _)
PopulateContexts(builders, stats, contexts) ==
    IF contexts = <<>> THEN builders
    ELSE LET idx == {i \in DOMAIN stats : stats[i].context = Head(contexts)}
         IN PopulateContexts(Populate({<<b, idx>> : b \in builders}, stats, Cardinality(idx)),
                             stats, Tail(contexts))

\* determineCommitInfoAndTestStatus: the builders it can leave
determineCommitInfoAndTestStatus(b, stats, clock) ==
    PopulateContexts({LogCommitInfo(b, clock)}, stats, SeqOfSet(Contexts))

\* PRConditionsBuilder.generate: the snapshots it can return
generate(base, stats, comments, clock) ==
    { determineIfBotInvoked(determineIfNew(b, comments), comments) :
        b \in determineCommitInfoAndTestStatus(NewBuilder(base), stats, clock) }

\* process_pr is called (lines 30-78): generate reads the statuses in some order
Generate ==
    /\ Returned
    /\ ghost.passes < MaxPasses
    /\ \E c \in generate(baseHead, commitStatuses, issueComments, now) :
          prConditions' = c
    /\ issue' = [labels |-> issueLabels]
    /\ pc' = "built"
    /\ ghost' = [ghost EXCEPT
                    !.passes = @ + 1,
                    !.pass = [built |-> prConditions', raised |-> FALSE,
                              atStart |-> <<commitStatuses, issueLabels, issueComments>>,
                              repeat |-> ghost.quiet, wasStalled |-> ghost.stalled]]
    /\ run' = Locals(prConditions')
    /\ UNCHANGED <<commitStatuses, issueLabels, issueComments, baseHead, now, pr, dryRun>>

\* generate's exception caught and the pass going on with what was built
AfterRaise_GoesOn == "built"

\* where process_pr goes on when generate raises: the exception leaves it (line 78)
AfterRaise == "aborted"

\* a call of the hosting API raises while generate runs
GenerateRaises ==
    /\ Returned
    /\ ghost.passes < MaxPasses
    /\ prConditions' = NewBuilder(baseHead)
    /\ issue' = [labels |-> issueLabels]
    /\ pc' = AfterRaise
    /\ ghost' = [ghost EXCEPT
                    !.passes = @ + 1,
                    !.pass = [built |-> prConditions', raised |-> TRUE,
                              atStart |-> <<commitStatuses, issueLabels, issueComments>>,
                              repeat |-> FALSE, wasStalled |-> ghost.stalled]]
    /\ run' = Locals(prConditions')
    /\ UNCHANGED <<commitStatuses, issueLabels, issueComments, baseHead, now, pr, dryRun>>

Effects(kind) == SelectSeq(run.effects, LAMBDA e : e.kind = kind)

EffectsOf(r, kind) == SelectSeq(r.effects, LAMBDA e : e.kind = kind)

NewStatuses(r, clock) ==
    LET es == EffectsOf(r, "status")
    IN [i \in DOMAIN es |->
          Status(es[i].context, es[i].state, es[i].description, es[i].target_url, clock)]

NewComments(r, clock) ==
    LET es == SelectSeq(EffectsOf(r, "comment"), LAMBDA e : e.posted)
    IN [i \in DOMAIN es |-> Comment(BOT, es[i].body, clock)]

NewLabels(r, labels) ==
    LET es == EffectsOf(r, "labels")
    IN IF es = <<>> THEN labels ELSE es[Len(es)].labels

\* process_pr, lines 80-487: the decision stages and what they emit
Reconcile ==
    /\ pc = "built"
    /\ run' = process_pr(prConditions, issue.labels, dryRun, now)
    /\ prConditions' = run'.c
    /\ commitStatuses' = commitStatuses \o NewStatuses(run', now)
    /\ issueComments' = issueComments \o NewComments(run', now)
    /\ issueLabels' = NewLabels(run', issueLabels)
    /\ pc' = "done"
    /\ ghost' = [ghost EXCEPT
                    !.quiet = TRUE,
                    !.stalled = (@ \cup Range(run'.stalled_jobs)) \ Queued(run')]
    /\ UNCHANGED <<baseHead, now, pr, dryRun, issue>>

Next ==
    \/ Tick
    \/ JenkinsReport
    \/ BaseMoves
    \/ Generate
    \/ GenerateRaises
    \/ Reconcile

Spec == Init /\ [][Next]_vars

-----------------------------------------------------------------------------
(* What a pass did *)

Done == pc = "done"

StatusEffects == Effects("status")

CommentEffects == Effects("comment")

\* the statuses the pass created for a test
StatusesFor(test) == SelectSeq(StatusEffects, LAMBDA e : e.context = get_test_alias(test))

\* the comments of the pass that carry a message
Notices(msg) == SelectSeq(CommentEffects, LAMBDA e : e.body.msg = msg)

\* the build-queue entries of the pass for a test
Enqueued(test) == SelectSeq(Effects("properties"), LAMBDA e : e.test = test)

-----------------------------------------------------------------------------
(* Claims *)

\* C1: a pass that follows a pass, with nothing happening in between, emits
\* no side effect: no status, no label change, no comment, no enqueued test.
C1_SecondPassEmitsNothing ==
    (Done /\ ghost.pass.repeat) => run.effects = <<>>

-----------------------------------------------------------------------------
(* The timeline on its own: the loop of determineCommitInfoAndTestStatus     *)
(* applied to two statuses of one context, in any order.                     *)

\* the statuses process_pr (lines 339-385) and the build jobs create
KnownStatuses ==
    { [state |-> "pending", description |-> DescTriggered, target_url |-> RepoUrl],
      [state |-> "pending", description |-> DescNotTriggered, target_url |-> RepoUrl],
      [state |-> "error", description |-> DescStalled, target_url |-> RepoUrl] }
    \cup { [state |-> r.state, description |-> r.description, target_url |-> JobUrl] :
             r \in JenkinsReports }

Observations ==
    { Status(get_test_alias(test), k.state, k.description, k.target_url, t) :
        test \in Tests, k \in KnownStatuses, t \in 0..MaxTime }

NoRecord == [recorded |-> <<>>]

TimelineInit ==
    /\ pr \in { p \in [ trustedAuthor : BOOLEAN,
                        requiredTests : {Tests},
                        lastCommitDate : CommitDates,
                        AUTO_TRIGGER_ON_OPEN : BOOLEAN,
                        state_labels : StateLabelTables ] :
                  p.trustedAuthor \/ p.AUTO_TRIGGER_ON_OPEN }
    /\ commitStatuses \in { o \in Observations \X Observations :
                               o[1].context = o[2].context }
    /\ issueLabels = {}
    /\ issueComments = <<>>
    /\ baseHead = BaseCommits[1]
    /\ now = MaxTime
    /\ pc = "timeline"
    /\ dryRun = FALSE
    /\ issue = [labels |-> {}]
    /\ prConditions = LogCommitInfo(NewBuilder(baseHead), now)
    /\ run = Locals(prConditions)
    /\ ghost = NoRecord

\* one turn of the loop over the statuses (lines 233-270)
RecordObservation ==
    /\ pc = "timeline"
    /\ \E i \in (DOMAIN commitStatuses) \ Range(ghost.recorded) :
          /\ prConditions' = RecordStatus(prConditions, commitStatuses[i])
          /\ ghost' = [ghost EXCEPT !.recorded = Append(@, i)]
    /\ run' = Locals(prConditions')
    /\ UNCHANGED <<commitStatuses, issueLabels, issueComments, baseHead, now, pr,
                   pc, dryRun, issue>>

TimelineNext == RecordObservation

TimelineSpec == TimelineInit /\ [][TimelineNext]_vars

Get(d, k) == IF k \in DOMAIN d THEN <<d[k]>> ELSE <<>>

\* what the timeline holds for a check
Recorded(b, name) ==
    [ status |-> Get(b.prev_test_statuses, name),
      triggered |-> Get(b.test_triggered, name),
      statusExists |-> Get(b.test_status_exists, name),
      updatedAt |-> Get(b.commitStatusTime, name),
      url |-> Get(b.test_urls, name) ]

\* the timeline after only the status `stat`
Only(stat) == RecordStatus(LogCommitInfo(NewBuilder(baseHead), now), stat)

BothRecorded == pc = "timeline" /\ Len(ghost.recorded) = 2

Later ==
    IF commitStatuses[1].updated_at > commitStatuses[2].updated_at
    THEN commitStatuses[1] ELSE commitStatuses[2]

\* C2: two statuses of a check with different updated_at, recorded in either
\* order, leave the check's status, triggered flag, statusExists, update time
\* and url as recording the later one alone does.
C2_EitherOrderEqualsLaterAlone ==
    (BothRecorded /\ commitStatuses[1].updated_at # commitStatuses[2].updated_at)
        => LET name == get_test_name(Later.context)
           IN Recorded(prConditions, name) = Recorded(Only(Later), name)


First == commitStatuses[ghost.recorded[1]]

\* the part of a check's record an observation of equal time must leave alone
Core(r) == [status |-> r.status, triggered |-> r.triggered,
            statusExists |-> r.statusExists, updatedAt |-> r.updatedAt]

\* C9: a status whose updated_at equals the update time recorded for its
\* check changes nothing: status, triggered flag, statusExists flag and
\* update time stay as the first status left them.
C9_EqualTimeIsNoOp ==
    (BothRecorded /\ commitStatuses[1].updated_at = commitStatuses[2].updated_at)
        => LET name == get_test_name(First.context)
           IN Core(Recorded(prConditions, name)) = Core(Recorded(Only(First), name))


-----------------------------------------------------------------------------
(* Stalls *)

\* the snapshot the pass was given
Built == ghost.pass.built

\* in the snapshot the test is triggered and running, and its last update is
\* older than its stall time
RunningTooLong(t) ==
    /\ t \in Built.legit_tests
    /\ Truthy(Built.test_triggered, t)
    /\ Built.prev_test_statuses[t] = "running"
    /\ now - Built.commitStatusTime[t] > get_stall_time(t)

StallNotices == Notices("JOB_STALL_MESSAGE")

StallNoticesNaming(t) == SelectSeq(StallNotices, LAMBDA e : t \in Range(e.body.queued))

StallStatuses(t) == SelectSeq(StatusesFor(t), LAMBDA e : e.description = DescStalled)

\* C3: a test that the snapshot shows triggered and running for longer than
\* its stall time leaves the pass stalled and not triggered, and is named in
\* exactly one stall notice; and a pass that begins with the test already
\* reset to stalled, nothing having re-triggered or reported on it, creates no
\* stall status and no stall notice for it.  Stated for the passes that post
\* (no dry run) on a pull request the bot has commented on before.
C3_StalledOnceAndOnlyOnce ==
    (Done /\ ~dryRun /\ ~Built.newPR) =>
        \A t \in Tests :
            /\ RunningTooLong(t) =>
                  /\ run.c.prev_test_statuses[t] = "stalled"
                  /\ ~run.c.test_triggered[t]
                  /\ Len(StallNotices) = 1
                  /\ Len(StallNoticesNaming(t)) = 1
            /\ t \in ghost.pass.wasStalled =>
                  /\ Len(StallStatuses(t)) = 0
                  /\ Len(StallNoticesNaming(t)) = 0


-----------------------------------------------------------------------------
(* Passes over a pull request found with a history: statuses of the build    *)
(* test and of buildtest/last already on the commit, the bot's greeting      *)
(* already on the issue or not, the base branch at any of its commits.       *)

\* the statuses of a test in the order they were created
RECURSIVE StatusHistories(_, _)
StatusHistories(test, n) ==
    IF n = 0 THEN {<<>>}
    ELSE LET shorter == StatusHistories(test, n - 1)
             Extensions(h) ==
                 { Append(h, Status(get_test_alias(test), k.state, k.description,
                                    k.target_url, t)) :
                     k \in KnownStatuses,
                     t \in {u \in 0..MaxTime : \A i \in DOMAIN h : h[i].updated_at <= u} }
         IN shorter \cup UNION {Extensions(h) : h \in {g \in shorter : Len(g) = n - 1}}

\* the buildtest/last status of lines 327-337, for a test against some base commit
SentinelHistories ==
    {<<>>} \cup { <<Status(LastContext, "success", DescLastTest(BaseCommits[i]), RepoUrl, 0)>> :
                    i \in DOMAIN BaseCommits }

\* the greeting of lines 427-445 as an earlier pass posted it
Greeting ==
    Comment(BOT, [Body("PR_SALUTATION") EXCEPT !.required = InOrder(pr.requiredTests),
                                                !.member = pr.trustedAuthor], 0)

HistoryInit ==
    /\ pr \in { p \in [ trustedAuthor : BOOLEAN,
                        requiredTests : {Tests},
                        lastCommitDate : CommitDates,
                        AUTO_TRIGGER_ON_OPEN : BOOLEAN,
                        state_labels : StateLabelTables ] :
                  p.trustedAuthor \/ p.AUTO_TRIGGER_ON_OPEN }
    /\ commitStatuses \in { h \o l : h \in StatusHistories("build", MaxHistory),
                                     l \in SentinelHistories }
    /\ issueLabels = {}
    /\ issueComments \in {<<>>, <<Greeting>>}
    /\ baseHead \in Range(BaseCommits)
    /\ now = MaxTime
    /\ pc = "idle"
    /\ dryRun \in BOOLEAN
    /\ issue = [labels |-> {}]
    /\ prConditions = NewBuilder(BaseCommits[1])
    /\ run = Locals(prConditions)
    /\ ghost = NoGhost

HistoryNext == Generate \/ Reconcile

HistorySpec == HistoryInit /\ [][HistoryNext]_vars


-----------------------------------------------------------------------------
(* The base branch has moved on *)

BaseChangeNotices == Notices("BASE_BRANCH_HEAD_CHANGED")

\* the snapshot shows the base head changed and a build that succeeded
BaseChangedAfterSuccess ==
    /\ Built.baseHeadChanged
    /\ "build" \in DOMAIN Built.prev_test_statuses
    /\ Built.prev_test_statuses["build"] = pr.state_labels["success"]

\* the pass reset build: pending, not triggered, no status
BuildReset ==
    /\ run.c.prev_test_statuses["build"] = "pending"
    /\ ~run.c.test_triggered["build"]
    /\ ~run.c.test_status_exists["build"]

\* C4 as stated: when the base head changed and build had succeeded, a pass on
\* a PR that is not new resets build to pending and posts exactly one
\* base-change notice, and a pass on a new PR posts none.
C4_ResetAndOneNotice ==
    (Done /\ BaseChangedAfterSuccess) =>
        IF Built.newPR THEN Len(BaseChangeNotices) = 0
        ELSE BuildReset /\ Len(BaseChangeNotices) = 1

\* C4 amended: the same, the one notice being posted unless the pass is a dry
\* run, which posts none.
C4_ResetAndOneNoticeUnlessDryRun ==
    (Done /\ BaseChangedAfterSuccess) =>
        IF Built.newPR THEN Len(BaseChangeNotices) = 0
        ELSE BuildReset /\ Len(BaseChangeNotices) = (IF dryRun THEN 0 ELSE 1)

C4_Witness ==
    Done /\ BaseChangedAfterSuccess /\ ~Built.newPR /\ ~dryRun
         /\ BuildReset /\ Len(BaseChangeNotices) = 1


-----------------------------------------------------------------------------
(* Passes over a pull request on which users have written comments *)

Writers == {"dev", "guest"}

\* what users wrote after the last commit, in the order they wrote it
RECURSIVE CommentHistories(_)
CommentHistories(n) ==
    IF n = 0 THEN {<<>>}
    ELSE LET shorter == CommentHistories(n - 1)
         IN shorter \cup
            { Append(h, Comment(u, body, 1)) :
                h \in {g \in shorter : Len(g) = n - 1}, u \in Writers, body \in UserBodies }

CommandInit ==
    /\ pr \in { p \in [ trustedAuthor : BOOLEAN,
                        requiredTests : {Tests},
                        lastCommitDate : CommitDates,
                        AUTO_TRIGGER_ON_OPEN : BOOLEAN,
                        state_labels : StateLabelTables ] :
                  p.trustedAuthor \/ p.AUTO_TRIGGER_ON_OPEN }
    /\ commitStatuses = <<>>
    /\ issueLabels = {}
    /\ issueComments \in { g \o h : g \in {<<>>, <<Greeting>>},
                                    h \in CommentHistories(MaxCommands) }
    /\ baseHead = BaseCommits[1]
    /\ now = 1
    /\ pc = "idle"
    /\ dryRun \in BOOLEAN
    /\ issue = [labels |-> {}]
    /\ prConditions = NewBuilder(BaseCommits[1])
    /\ run = Locals(prConditions)
    /\ ghost = NoGhost

CommandNext == Generate \/ Reconcile

CommandSpec == CommandInit /\ [][CommandNext]_vars

\* the comments the snapshot kept in which a command names the test
Requests(t) ==
    { i \in DOMAIN Built.testsRequested :
        /\ Built.testTriggerResults[i] = TestTriggerResult.SUCCESS
        /\ t \in Range(Built.testsRequested[i].tests) }

TimesQueued(t) == Cardinality({i \in DOMAIN run.tests_to_trigger : run.tests_to_trigger[i][1] = t})

Reactions == Effects("reaction")

\* C5: when two commands of one pass name the same test, not triggered
\* before, the test is in the pass's queue exactly once, is recorded as
\* already triggered, and the second comment gets a "confused" reaction.
C5_SecondCommandAlreadyTriggered ==
    Done => \A t \in Tests :
              (Cardinality(Requests(t)) >= 2 /\ ~Truthy(Built.test_triggered, t)) =>
                  /\ TimesQueued(t) = 1
                  /\ t \in Range(run.tests_already_triggered)
                  /\ \E i \in DOMAIN Reactions : Reactions[i].reaction = "confused"


-----------------------------------------------------------------------------
(* The default tests of a new pull request *)

\* the snapshot shows a new PR of a trusted author, and the tests of a new PR
\* are to be triggered
NewTrustedAutoTrigger == Built.newPR /\ Built.trustedAuthor /\ pr.AUTO_TRIGGER_ON_OPEN

\* the test is in the queue once, with an empty environment, and the decision
\* stages left it pending and triggered
QueuedOncePending(t) ==
    /\ TimesQueued(t) = 1
    /\ EnvOf(run, t) = "{}"
    /\ Len(Enqueued(t)) = 1
    /\ Enqueued(t)[1].env = "{}"
    /\ Get(run.c.prev_test_statuses, t) = <<"pending">>
    /\ Truthy(run.c.test_triggered, t)

\* C6 as stated: on a new PR of a trusted author, with auto-trigger on open,
\* every required test is queued once with an empty environment and is
\* pending and triggered after the decision stages.
C6_DefaultTestsQueued ==
    (Done /\ NewTrustedAutoTrigger) =>
        \A t \in Built.requiredTests : QueuedOncePending(t)

\* C6 amended: the same in a pass that is not a dry run; a dry run queues nothing.
C6_DefaultTestsQueuedUnlessDryRun ==
    (Done /\ NewTrustedAutoTrigger) =>
        IF dryRun THEN run.tests_to_trigger = <<>> /\ Effects("properties") = <<>>
        ELSE \A t \in Built.requiredTests : QueuedOncePending(t)

C6_Witness ==
    /\ Done /\ NewTrustedAutoTrigger /\ ~dryRun
    /\ Built.requiredTests = Tests
    /\ \A t \in Tests : QueuedOncePending(t)


-----------------------------------------------------------------------------
(* The status that records the base commit of a build *)

\* the buildtest/last status for the base commit of the snapshot
Sentinel == StatusEffect(LastContext, "success", DescLastTest(Built.baseCommitSha))

BuildTriggered == StatusEffect(get_test_alias("build"), "pending", DescTriggered)

\* the effect at i is the triggered status of build and the sentinel was emitted before it
SentinelBefore(i) ==
    /\ run.effects[i] = BuildTriggered
    /\ \E j \in 1..(i - 1) : run.effects[j] = Sentinel

\* C7: a pass that triggers build emits the buildtest/last status, which
\* names the base commit, and after it the "triggered" status of build; and
\* no pass emits that "triggered" status without the buildtest/last status
\* before it.
C7_SentinelBeforeTriggered ==
    Done =>
        /\ "build" \in Queued(run) => \E i \in DOMAIN run.effects : SentinelBefore(i)
        /\ \A i \in DOMAIN run.effects :
              run.effects[i] = BuildTriggered => SentinelBefore(i)

C7_Witness ==
    Done /\ "build" \in Queued(run) /\ \E i \in DOMAIN run.effects : SentinelBefore(i)


-----------------------------------------------------------------------------
(* The snapshot and the working maps *)

\* the maps of a snapshot that the decision stages work on
Maps(c) == <<c.prev_test_statuses, c.test_triggered, c.test_status_exists>>

\* C8: when the base-change, stall and orphan-reset stages of a pass have
\* run, prev_test_statuses, test_triggered and test_status_exists of the
\* snapshot are as generate returned them.
C8_SnapshotKeepsItsMaps ==
    Done => Maps(Resets(Built, now).c) = Maps(Built)


-----------------------------------------------------------------------------
(* generate raises *)

\* C10: a pass whose generate raised has created no status, changed no
\* label, posted no comment and queued no test: the statuses, labels and
\* comments are those the pass found, and it emitted nothing.
C10_RaiseLeavesNoEffect ==
    ghost.pass.raised =>
        /\ <<commitStatuses, issueLabels, issueComments>> = ghost.pass.atStart
        /\ run.effects = <<>>
        /\ run.tests_to_trigger = <<>>

C10_Witness ==
    /\ pc = "aborted" /\ ghost.pass.raised
    /\ Len(commitStatuses) > 0 /\ Len(issueComments) > 0
    /\ <<commitStatuses, issueLabels, issueComments>> = ghost.pass.atStart


-----------------------------------------------------------------------------
(* Two passes over one pull request at the same time.  Each pass has its    *)
(* own locals: here pc, prConditions and run hold one value for each pass.  *)
(* A pass builds its snapshot, reads the clock and decides, and then makes  *)
(* its calls to the hosting API one after the other.                        *)

Passes == {1, 2}

OverlapInit ==
    /\ pr \in { p \in [ trustedAuthor : BOOLEAN,
                        requiredTests : {Tests},
                        lastCommitDate : CommitDates,
                        AUTO_TRIGGER_ON_OPEN : BOOLEAN,
                        state_labels : StateLabelTables ] :
                  p.trustedAuthor \/ p.AUTO_TRIGGER_ON_OPEN }
    /\ commitStatuses \in { h \o l : h \in StatusHistories("build", MaxHistory),
                                     l \in SentinelHistories }
    /\ issueLabels = {}
    /\ issueComments \in {<<>>, <<Greeting>>}
    /\ baseHead = BaseCommits[1]
    /\ now = MaxTime - 1
    /\ pc = [p \in Passes |-> "idle"]
    /\ dryRun \in BOOLEAN
    /\ issue = [labels |-> {}]
    /\ prConditions = [p \in Passes |-> NewBuilder(BaseCommits[1])]
    /\ run = [p \in Passes |-> Locals(prConditions[p])]
    /\ ghost = [start |-> <<commitStatuses, issueLabels>>,   \* what the passes found
                emitted |-> [p \in Passes |-> 0],         \* calls made so far
                listed |-> <<>>]                          \* the snapshot get_statuses' order gives

\* line 78 in pass p, while no pass has yet made a call that changes the PR.
\* get_statuses lists the same statuses in the same order for both passes.
OverlapGenerate(p) ==
    /\ pc[p] = "idle"
    /\ \A q \in Passes : ghost.emitted[q] = 0
    /\ \E c \in generate(baseHead, commitStatuses, issueComments, now) :
          /\ ghost.listed \in {<<>>, <<c>>}
          /\ prConditions' = [prConditions EXCEPT ![p] = c]
          /\ ghost' = [ghost EXCEPT !.listed = <<c>>]
    /\ pc' = [pc EXCEPT ![p] = "built"]
    /\ UNCHANGED <<commitStatuses, issueLabels, issueComments, baseHead, now, pr,
                   dryRun, issue, run>>

\* lines 80-487 in pass p, up to its first call that changes the PR: the
\* clock is read (line 155) and what the pass will do is settled
OverlapDecide(p) ==
    /\ pc[p] = "built"
    /\ run' = [run EXCEPT ![p] = process_pr(prConditions[p], issue.labels, dryRun, now)]
    /\ prConditions' = [prConditions EXCEPT ![p] = run'[p].c]
    /\ pc' = [pc EXCEPT ![p] = IF run'[p].effects = <<>> THEN "done" ELSE "decided"]
    /\ UNCHANGED <<commitStatuses, issueLabels, issueComments, baseHead, now, pr,
                   dryRun, issue, ghost>>

\* the next create_status, issue.edit, post_on_pr or properties file of pass p
OverlapEmit(p) ==
    /\ pc[p] = "decided"
    /\ LET i == ghost.emitted[p] + 1
           one == [run[p] EXCEPT !.effects = <<run[p].effects[i]>>]
       IN /\ commitStatuses' = commitStatuses \o NewStatuses(one, now)
          /\ issueComments' = issueComments \o NewComments(one, now)
          /\ issueLabels' = NewLabels(one, issueLabels)
          /\ ghost' = [ghost EXCEPT !.emitted[p] = i]
          /\ pc' = [pc EXCEPT ![p] = IF i = Len(run[p].effects) THEN "done" ELSE "decided"]
    /\ UNCHANGED <<baseHead, now, pr, dryRun, issue, prConditions, run>>

\* time passes while the passes run
OverlapTick ==
    /\ now < MaxTime
    /\ \E p \in Passes : pc[p] = "built"
    /\ now' = now + 1
    /\ UNCHANGED <<commitStatuses, issueLabels, issueComments, baseHead, pr, pc,
                   dryRun, issue, prConditions, run, ghost>>

OverlapNext ==
    \/ \E p \in Passes : OverlapGenerate(p)
    \/ \E p \in Passes : OverlapDecide(p)
    \/ \E p \in Passes : OverlapEmit(p)
    \/ OverlapTick

OverlapSpec == OverlapInit /\ [][OverlapNext]_vars

\* what the hosting site shows of a commit: the last status of each context
LatestStatuses(stats) ==
    [ctx \in {stats[i].context : i \in DOMAIN stats} |->
        LET last == CHOOSE i \in DOMAIN stats :
                       /\ stats[i].context = ctx
                       /\ \A j \in DOMAIN stats : stats[j].context = ctx => j <= i
        IN <<stats[last].state, stats[last].description>>]

\* the statuses and labels pass p would have left had it run alone
Alone(p) ==
    <<LatestStatuses(ghost.start[1] \o NewStatuses(run[p], now)),
      NewLabels(run[p], ghost.start[2])>>

BothDone == \A p \in Passes : pc[p] = "done"

\* C11: two passes that both built their snapshot before either changed
\* the PR leave the statuses and labels as one of them alone would have.
C11_OverlapAsOnePass ==
    BothDone => \E p \in Passes : <<LatestStatuses(commitStatuses), issueLabels>> = Alone(p)


-----------------------------------------------------------------------------
(* The merge cascade (process_pr.py 30-75).  In CascadeSpec `pr` maps each  *)
(* pull request of the repository to what repo.get_pull returns for it,    *)
(* `pc` is the stack of process_pr calls in progress and `issue` the       *)
(* number the outermost call was made for.  The pass proper (lines 77 on)  *)
(* is kept as the record of which call reached it.                         *)

NumPulls == 4
MaxMerges == 2
MaxDepth == 2
MergeLag == 2

Pulls == 1 .. NumPulls

Pull(state, merged, merged_at, changed_files) ==
    [state |-> state, merged |-> merged, merged_at |-> merged_at,
     changed_files |-> changed_files]

OpenPull == Pull("open", FALSE, 0, 1)

PullStates ==
    {OpenPull, Pull("open", FALSE, 0, 0), Pull("closed", FALSE, 0, 1),
     Pull("closed", TRUE, 0, 1)}

Call(n, child_call) ==
    [number |-> n, child_call |-> child_call, at |-> "entry",
     pull |-> OpenPull, todo |-> <<>>]

\* lines 31-33: "Stopping recursion"
StopRecursion_Never(child_call) == FALSE
StopRecursion(child_call) == child_call > MaxDepth

\* line 56
MergedRecently(p, clock) == p.merged /\ clock - p.merged_at < MergeLag

\* line 63: repo.get_pulls(state="open", base=pr.base.ref)
get_pulls(pulls) == SeqOfSet({n \in DOMAIN pulls : pulls[n].state = "open"})

Top == pc[Len(pc)]

Pop == SubSeq(pc, 1, Len(pc) - 1)

CascadeInit ==
    /\ pr \in [Pulls -> PullStates]
    /\ issue \in Pulls
    /\ pc = <<Call(issue, 0)>>
    /\ now \in {0, MaxTime}
    /\ dryRun = FALSE
    /\ commitStatuses = <<>>
    /\ issueLabels = {}
    /\ issueComments = <<>>
    /\ baseHead = BaseCommits[1]
    /\ prConditions = <<>>
    /\ run = <<>>
    /\ ghost = [calls |-> 0, stopped |-> 0, reads |-> {}, reconciled |-> {},
                merges |-> 0]

\* lines 30-63: the guard, repo.get_pull, the early returns and the listing
CascadeEnter ==
    /\ pc # <<>>
    /\ Top.at = "entry"
    /\ LET call == Top
           p == pr[call.number]
           read == [ghost EXCEPT !.calls = @ + 1,
                                 !.reads = @ \cup {<<call.number, call.child_call>>}]
       IN IF StopRecursion(call.child_call)
          THEN /\ pc' = Pop
               /\ ghost' = [ghost EXCEPT !.calls = @ + 1, !.stopped = @ + 1]
          ELSE /\ ghost' = read
               /\ pc' = IF p.changed_files = 0 THEN Pop
                        ELSE IF MergedRecently(p, now)
                        THEN [pc EXCEPT ![Len(pc)] =
                                 [call EXCEPT !.at = "cascade", !.pull = p,
                                              !.todo = get_pulls(pr)]]
                        ELSE [pc EXCEPT ![Len(pc)] =
                                 [call EXCEPT !.at = "closed", !.pull = p]]
    /\ UNCHANGED <<commitStatuses, issueLabels, issueComments, baseHead, now,
                   pr, dryRun, issue, prConditions, run>>

\* lines 64-71: the next process_pr(..., child_call=child_call + 1)
CascadeChild ==
    /\ pc # <<>>
    /\ Top.at = "cascade"
    /\ pc' = IF Top.todo = <<>>
             THEN [pc EXCEPT ![Len(pc)].at = "closed"]
             ELSE [pc EXCEPT ![Len(pc)].todo = Tail(@)]
                     \o <<Call(Head(Top.todo), Top.child_call + 1)>>
    /\ UNCHANGED <<commitStatuses, issueLabels, issueComments, baseHead, now,
                   pr, dryRun, issue, prConditions, run, ghost>>

\* lines 73-78: a closed PR is ignored, any other is reconciled
CascadeReconcile ==
    /\ pc # <<>>
    /\ Top.at = "closed"
    /\ ghost' = IF Top.pull.state = "closed" THEN ghost
                ELSE [ghost EXCEPT !.reconciled =
                         @ \cup {<<Top.number, Top.child_call>>}]
    /\ pc' = Pop
    /\ UNCHANGED <<commitStatuses, issueLabels, issueComments, baseHead, now,
                   pr, dryRun, issue, prConditions, run>>

\* somebody merges an open pull request while a call is in progress
MergePull ==
    /\ pc # <<>>
    /\ ghost.merges < MaxMerges
    /\ \E n \in Pulls :
          /\ pr[n] = OpenPull
          /\ pr' = [pr EXCEPT ![n] = Pull("closed", TRUE, now, 1)]
    /\ ghost' = [ghost EXCEPT !.merges = @ + 1]
    /\ UNCHANGED <<commitStatuses, issueLabels, issueComments, baseHead, now,
                   pc, dryRun, issue, prConditions, run>>

CascadeNext == CascadeEnter \/ CascadeChild \/ CascadeReconcile \/ MergePull

CascadeSpec == CascadeInit /\ [][CascadeNext]_vars

\* the calls one outermost call can make when no call deeper than MaxDepth
\* goes on to list the open pull requests
CallBound == 1 + NumPulls + NumPulls * NumPulls + NumPulls * NumPulls * NumPulls

Depths(calls) == {c[2] : c \in calls}

\* C12: a process_pr call with child_call > 2 returns before it reads or
\* changes any pull request, so the stack of calls never grows past four
\* and one outermost call makes a bounded number of calls.
C12_CascadeStopsAtDepthTwo ==
    /\ \A d \in Depths(ghost.reads) \cup Depths(ghost.reconciled) : d <= MaxDepth
    /\ \A i \in 1 .. Len(pc) : pc[i].child_call > MaxDepth => pc[i].at = "entry"
    /\ Len(pc) <= MaxDepth + 2
    /\ ghost.calls <= CallBound

C12_Witness ==
    /\ pc = <<>>
    /\ ghost.stopped > 0
    /\ \E c \in ghost.reconciled : c[2] = MaxDepth


-----------------------------------------------------------------------------
(* The buildtest/last status read back (PRConditions.py 178-206) *)

\* when the pass began, a buildtest/last status for the present base head was
\* there, created at the present time: an earlier pass triggered build against it
TriggeredAgainstHead ==
    /\ now > 0
    /\ \E i \in DOMAIN ghost.pass.atStart[1] :
          LET stat == ghost.pass.atStart[1][i] IN
          /\ stat.context = LastContext
          /\ stat.description = DescLastTest(baseHead)
          /\ stat.updated_at = now

\* the snapshot recorded a base commit that the base head does not start with
RecordedAnotherBase ==
    /\ Built.baseCommitSha_lastTest # NoSha
    /\ ~StartsWith(Built.baseCommitSha, Built.baseCommitSha_lastTest)

\* C13: a pass that follows one which triggered build against the base head,
\* the base head being the same, computes baseHeadChanged = False; and a pass
\* whose recorded base commit is no prefix of the base head computes
\* baseHeadChanged = True.
C13_SentinelReadBack ==
    pc \in {"built", "done"} =>
        /\ TriggeredAgainstHead => ~Built.baseHeadChanged
        /\ RecordedAnotherBase => Built.baseHeadChanged

\* the second pass reads the buildtest/last status of the first and an older
\* one for another base commit
C13_Witness ==
    /\ Done
    /\ TriggeredAgainstHead
    /\ ~Built.baseHeadChanged
    /\ \E i \in DOMAIN commitStatuses :
          /\ commitStatuses[i].context = LastContext
          /\ ~StartsWith(baseHead, StripLastTest(commitStatuses[i].description))


-----------------------------------------------------------------------------
(* One pass taken a step at a time: the loop over the statuses of            *)
(* determineCommitInfoAndTestStatus turn by turn, the rest of generate, and  *)
(* then each decision stage of process_pr.  The commit carries two statuses  *)
(* of any contexts; they are read in either order, at the time of the later *)
(* or a minute after it.                                                    *)

\* statuses of the contexts the timeline does not keep as checks
OtherObservations ==
    { Status(LastContext, "success", DescLastTest(BaseCommits[i]), RepoUrl, t) :
        i \in DOMAIN BaseCommits, t \in 0..MaxTime }
    \cup { Status(OtherContext, "success", DescPassed, JobUrl, t) : t \in 0..MaxTime }

StagesInit ==
    /\ pr \in { p \in [ trustedAuthor : BOOLEAN,
                        requiredTests : {Tests},
                        lastCommitDate : CommitDates,
                        AUTO_TRIGGER_ON_OPEN : BOOLEAN,
                        state_labels : StateLabelTables ] :
                  p.trustedAuthor \/ p.AUTO_TRIGGER_ON_OPEN }
    /\ commitStatuses \in (Observations \cup OtherObservations)
                             \X (Observations \cup OtherObservations)
    /\ issueLabels = {}
    /\ issueComments \in {<<>>, <<Greeting>>}
    /\ baseHead = BaseCommits[1]
    /\ now \in {MaxTime, MaxTime + 1}
    /\ pc = "timeline"
    /\ dryRun \in BOOLEAN
    /\ issue = [labels |-> {}]
    /\ prConditions = LogCommitInfo(NewBuilder(baseHead), now)
    /\ run = Locals(prConditions)
    /\ ghost = [recorded |-> <<>>, accepted |-> <<>>, fell |-> {}]

\* the checks whose triggered flag is True in `before` and not in `after`
Fallen(before, after) ==
    {n \in DOMAIN before.test_triggered :
        before.test_triggered[n] /\ ~Truthy(after.test_triggered, n)}

\* ghost.fell: the flags that went from True to False, each with the
\* position of the pass after the step that did it
Fell(at, after) == [ghost EXCEPT !.fell = @ \cup {<<n, at>> : n \in Fallen(prConditions, after)}]

\* the turn of the loop for `stat` gets past the `continue`s of lines 236-243
Accepted(b, stat) ==
    /\ stat.context # LastContext
    /\ get_test_name(stat.context) # UNRECOGNISED
    /\ ~IsStale(b, get_test_name(stat.context), stat)

\* one turn of the loop over the statuses (lines 233-270); ghost.recorded
\* lists the statuses read and ghost.accepted those of them that were accepted
StageRecord ==
    /\ pc = "timeline"
    /\ \E i \in (DOMAIN commitStatuses) \ Range(ghost.recorded) :
          /\ prConditions' = RecordStatus(prConditions, commitStatuses[i])
          /\ ghost' = [Fell("timeline", prConditions') EXCEPT
                          !.recorded = Append(@, i),
                          !.accepted = IF Accepted(prConditions, commitStatuses[i])
                                       THEN Append(@, i) ELSE @]
    /\ run' = Locals(prConditions')
    /\ UNCHANGED <<commitStatuses, issueLabels, issueComments, baseHead, now, pr,
                   pc, dryRun, issue>>

\* the loop over the statuses is over: the rest of generate (lines 76-80 of
\* PRConditions.py) and lines 80-97 of process_pr.py
StageSnapshot ==
    /\ pc = "timeline"
    /\ Range(ghost.recorded) = DOMAIN commitStatuses
    /\ prConditions' = determineIfBotInvoked(determineIfNew(prConditions, issueComments),
                                             issueComments)
    /\ run' = Locals(prConditions')
    /\ pc' = "snapshot"
    /\ ghost' = Fell("snapshot", prConditions')
    /\ UNCHANGED <<commitStatuses, issueLabels, issueComments, baseHead, now, pr,
                   dryRun, issue>>

\* a decision stage of process_pr, from one position of the pass to the next
Stage(from, to, after) ==
    /\ pc = from
    /\ run' = after
    /\ prConditions' = run'.c
    /\ pc' = to
    /\ ghost' = Fell(to, prConditions')
    /\ UNCHANGED <<commitStatuses, issueLabels, issueComments, baseHead, now, pr,
                   dryRun, issue>>

StageBaseHead == Stage("snapshot", "base", BaseHeadReset(run))

StageStall == Stage("base", "stall", StallDetection(run, now))

StageOrphan == Stage("stall", "orphan", OrphanReset(run))

StageTrigger == Stage("orphan", "trigger", DefaultTrigger(run, dryRun))

StageAct == Stage("trigger", "acted", Act(run, issue.labels, dryRun))

StagesNext ==
    \/ StageRecord
    \/ StageSnapshot
    \/ StageBaseHead
    \/ StageStall
    \/ StageOrphan
    \/ StageTrigger
    \/ StageAct

StagesSpec == StagesInit /\ [][StagesNext]_vars


\* the flag of a check that stalled, reset by the stall loop
StallFall(f) == f[2] = "stall" /\ f[1] \in Range(run.stalled_jobs)

\* C14 as stated: a triggered flag goes from True to False only in the stall
\* reset of its check or in the base-head-change reset of build.
C14_OnlyStallOrBaseReset ==
    \A f \in ghost.fell : StallFall(f) \/ f = <<"build", "base">>

\* C14: a triggered flag goes from True to False only in the stall reset of
\* its check, in the base-head-change reset of build or in the reset of a
\* completed build that has no buildtest/last status (lines 175-188); no turn
\* of the status loop and no other stage of the pass does it.
C14_OnlyTheThreeResets ==
    \A f \in ghost.fell :
        StallFall(f) \/ f = <<"build", "base">> \/ f = <<"build", "orphan">>

C14_Witness ==
    /\ pc = "acted"
    /\ <<"build", "orphan">> \in ghost.fell
    /\ \E t \in Tests : <<t, "stall">> \in ghost.fell


\* what the pass holds for a check
Held(b, name) ==
    <<Get(b.prev_test_statuses, name), Get(b.test_triggered, name),
      Get(b.test_status_exists, name)>>

\* the check is legitimate, running or pending, triggered, and its last
\* update is older than its stall time
StallDue(b, name) ==
    /\ name \in b.legit_tests
    /\ Get(b.prev_test_statuses, name) \in {<<"running">>, <<"pending">>}
    /\ Get(b.test_triggered, name) = <<TRUE>>
    /\ now - b.commitStatusTime[name] > get_stall_time(name)

\* C15: the stall loop resets a check to stalled (triggered False, status
\* stalled, statusExists False, listed in stalled_jobs) exactly when the
\* check is legitimate, running or pending, triggered, and last updated more
\* than its stall time ago; it leaves what the pass holds for every other
\* check as it was.
C15_StallResetIff ==
    [][(pc = "base" /\ pc' = "stall") =>
          \A t \in Tests :
             /\ StallDue(prConditions, t) <=> t \in Range(run'.stalled_jobs)
             /\ StallDue(prConditions, t) =>
                   Held(prConditions', t) = <<<<"stalled">>, <<FALSE>>, <<FALSE>>>>
             /\ ~StallDue(prConditions, t) =>
                   Held(prConditions', t) = Held(prConditions, t)]_vars

\* build has been reset to stalled and validation, triggered but updated
\* just the stall time ago, has been left as it was
C15_Witness ==
    /\ pc = "stall"
    /\ run.stalled_jobs = <<"build">>
    /\ Held(prConditions, "build") = <<<<"stalled">>, <<FALSE>>, <<FALSE>>>>
    /\ Held(prConditions, "validation")[2] = <<TRUE>>
    /\ Held(prConditions, "validation")[1] \in {<<"running">>, <<"pending">>}
    /\ now - prConditions.commitStatusTime["validation"] = get_stall_time("validation")


\* the status at i says the check has not been triggered, and every other
\* status of the check is older
LatestSaysNotTriggered(i) ==
    /\ commitStatuses[i].state = "pending"
    /\ commitStatuses[i].description = DescNotTriggered
    /\ \A j \in (DOMAIN commitStatuses) \ {i} :
          commitStatuses[j].context = commitStatuses[i].context
             => commitStatuses[j].updated_at < commitStatuses[i].updated_at

\* C16: a check whose latest status says "This test has not been triggered
\* yet." is not reset to stalled, whatever older statuses it has and in
\* whatever order the statuses are read.
C16_NotTriggeredNeverStalls ==
    \A i \in DOMAIN commitStatuses :
        LatestSaysNotTriggered(i)
           => get_test_name(commitStatuses[i].context) \notin Range(run.stalled_jobs)


\* the statuses of a check that the loop accepted, in the order it read them
AcceptedFor(t) ==
    SelectSeq(ghost.accepted, LAMBDA i : commitStatuses[i].context = get_test_alias(t))

LastAccepted(t) == commitStatuses[AcceptedFor(t)[Len(AcceptedFor(t))]]

\* C17: while the statuses are read, a check whose last accepted status has
\* "running" in its description has the status running and that status's
\* target URL, and one whose last accepted status has "stalled" in its
\* description has the status stalled.
C17_LastAcceptedDescriptionWins ==
    pc = "timeline" =>
        \A t \in Tests :
            AcceptedFor(t) # <<>> =>
               /\ Contains(LastAccepted(t).description, <<"running">>) =>
                     /\ Get(prConditions.prev_test_statuses, t) = <<"running">>
                     /\ Get(prConditions.test_urls, t) = <<LastAccepted(t).target_url>>
               /\ Contains(LastAccepted(t).description, <<"stalled">>) =>
                     Get(prConditions.prev_test_statuses, t) = <<"stalled">>


\* what C18 counts as a status that triggers
SaysTriggered(stat) ==
    \/ Contains(stat.description, <<"has", "been", "triggered">>)
    \/ Contains(stat.description, <<"running">>)
    \/ stat.state \in {"success", "failure"}

\* C18: while the statuses are read, the triggered flag of a check is True
\* exactly when an accepted status of the check had "has been triggered" or
\* "running" in its description or the state success or failure; and no turn
\* of the loop takes a flag from True to False.
C18_TriggeredIffAnAcceptedSaysSo ==
    pc = "timeline" =>
        /\ \A t \in Tests :
              Truthy(prConditions.test_triggered, t)
                 <=> \E k \in DOMAIN AcceptedFor(t) :
                        SaysTriggered(commitStatuses[AcceptedFor(t)[k]])
        /\ \A f \in ghost.fell : f[2] # "timeline"

\* both statuses of build were accepted; the first triggers, the second does not
C18_Witness ==
    /\ pc = "timeline"
    /\ Len(AcceptedFor("build")) = 2
    /\ SaysTriggered(commitStatuses[AcceptedFor("build")[1]])
    /\ ~SaysTriggered(commitStatuses[AcceptedFor("build")[2]])
    /\ Truthy(prConditions.test_triggered, "build")


\* the status the turn of the loop just taken has read
JustRead == commitStatuses[ghost'.recorded[Len(ghost'.recorded)]]

\* the timeline's entries for the checks
Generic(b) ==
    <<b.prev_test_statuses, b.test_triggered, b.test_status_exists, b.legit_tests,
      b.test_urls, [t \in Tests |-> Get(b.commitStatusTime, t)]>>

\* the base commit of the last build test and what follows from it
Reference(b) == <<b.baseCommitSha_lastTest, b.baseHeadChanged>>

\* the builder with its reference and its update times left out
Rest(b) ==
    [b EXCEPT !.baseCommitSha_lastTest = NoSha, !.baseHeadChanged = FALSE,
              !.commitStatusTime = EmptyDict]

\* C19: the turn of the loop for a buildtest/last status adds and changes no
\* entry of the statuses, the triggered flags, the statusExists flags or the
\* legitimate tests; it changes only the base commit of the last test and
\* baseHeadChanged (and the time it keeps for buildtest/last), and neither of
\* the two when a buildtest/last status with a later time was read before.
C19_SentinelOnlyMovesReference ==
    [][(pc = "timeline" /\ pc' = "timeline" /\ JustRead.context = LastContext) =>
          /\ Generic(prConditions') = Generic(prConditions)
          /\ Rest(prConditions') = Rest(prConditions)
          /\ (/\ LAST_TEST \in DOMAIN prConditions.commitStatusTime
              /\ prConditions.commitStatusTime[LAST_TEST] > JustRead.updated_at)
                => Reference(prConditions') = Reference(prConditions)]_vars

\* two buildtest/last statuses for different base commits, the later read
\* first: the reference is the later one's
C19_Witness ==
    /\ pc = "timeline"
    /\ Len(ghost.recorded) = 2
    /\ \A i \in DOMAIN commitStatuses : commitStatuses[i].context = LastContext
    /\ commitStatuses[ghost.recorded[2]].updated_at
          < commitStatuses[ghost.recorded[1]].updated_at
    /\ commitStatuses[ghost.recorded[2]].description
          # commitStatuses[ghost.recorded[1]].description
    /\ prConditions.baseCommitSha_lastTest
          = StripLastTest(commitStatuses[ghost.recorded[1]].description)
    /\ prConditions.baseHeadChanged


\* the checks with a status and a statusExists entry
WithStatus(b) == (DOMAIN b.prev_test_statuses) \cap (DOMAIN b.test_status_exists)

\* C20: the turn of the loop for a status whose context is no test's changes
\* nothing of the timeline; and after every turn the legitimate tests are the
\* checks that have a status and a statusExists entry, "unrecognised" never
\* among them.
C20_UnrecognisedDropped ==
    [][(pc = "timeline" /\ pc' = "timeline") =>
          /\ JustRead.context = OtherContext => prConditions' = prConditions
          /\ prConditions'.legit_tests = WithStatus(prConditions')
          /\ UNRECOGNISED \notin prConditions'.legit_tests]_vars

\* a status of build and a status of no test have been read, the latter last
C20_Witness ==
    /\ pc = "timeline"
    /\ Len(ghost.recorded) = 2
    /\ commitStatuses[ghost.recorded[1]].context = get_test_alias("build")
    /\ commitStatuses[ghost.recorded[2]].context = OtherContext
    /\ prConditions.legit_tests = {"build"}
    /\ WithStatus(prConditions) = {"build"}


\* build is legitimate, has no base commit of a last test, and is completed
OrphanedCompletion(b) ==
    /\ "build" \in b.legit_tests
    /\ b.baseCommitSha_lastTest = NoSha
    /\ Get(b.prev_test_statuses, "build")
          \in {<<"success">>, <<"finished">>, <<"error">>, <<"failure">>}

\* C21: the stage of lines 172-188 resets build to pending, triggered False
\* and statusExists False when build is legitimate, no base commit of a last
\* test is known and build's status is success, finished, error or failure,
\* on a new PR too; in every other case it leaves build's status, triggered
\* flag and statusExists flag as they were.
C21_OrphanedBuildReset ==
    [][(pc = "stall" /\ pc' = "orphan") =>
          Held(prConditions', "build") =
              IF OrphanedCompletion(prConditions)
              THEN <<<<"pending">>, <<FALSE>>, <<FALSE>>>>
              ELSE Held(prConditions, "build")]_vars

\* a new PR whose completed build was reset by this stage, no notice set
C21_Witness ==
    /\ pc = "orphan"
    /\ prConditions.newPR
    /\ <<"build", "orphan">> \in ghost.fell
    /\ ~run.doNotifyBaseHEADChanged
    /\ Held(prConditions, "build") = <<<<"pending">>, <<FALSE>>, <<FALSE>>>>


\* the test has a status and the pass does not queue it
HeldBack(t) == t \in DOMAIN prConditions.prev_test_statuses /\ t \notin Queued(run)

\* the statuses claim C22 has the pass create for a test it does not queue
DueStatuses(t, notTriggered) ==
    LET h == Held(prConditions, t) IN
    IF h[1] = <<"pending">> /\ h[3] = <<TRUE>> THEN <<>>
    ELSE IF h[1] = <<"stalled">> /\ h[3] = <<FALSE>>
    THEN <<StatusEffect(get_test_alias(t), "error", DescStalled)>>
    ELSE IF h[1] = <<"pending">> /\ h[2] = <<FALSE>> /\ h[3] = <<FALSE>>
    THEN notTriggered
    ELSE <<>>

NotTriggeredStatus(t) == <<StatusEffect(get_test_alias(t), "pending", DescNotTriggered)>>

\* C22 as stated: for a test that is not queued the pass creates nothing when
\* the status is pending and a status exists, one "stalled" error status when
\* it is stalled and none exists, one "not triggered" pending status when it
\* is pending, not triggered and none exists, and nothing otherwise.
C22_StatusPerCheck ==
    pc = "acted" =>
        \A t \in Tests :
            HeldBack(t) => StatusesFor(t) = DueStatuses(t, NotTriggeredStatus(t))

\* C22: the same, the "not triggered" status being created only when the
\* pass is no dry run; the "stalled" status is created in a dry run too.
C22_StatusPerCheckUnlessDryRun ==
    pc = "acted" =>
        \A t \in Tests :
            HeldBack(t) =>
               StatusesFor(t) =
                  DueStatuses(t, IF dryRun THEN <<>> ELSE NotTriggeredStatus(t))

\* a dry run that creates the "stalled" status of validation and no "not
\* triggered" status for build, which was reset to pending
C22_Witness ==
    /\ pc = "acted"
    /\ dryRun
    /\ HeldBack("build") /\ HeldBack("validation")
    /\ Held(prConditions, "build") = <<<<"pending">>, <<FALSE>>, <<FALSE>>>>
    /\ StatusesFor("build") = <<>>
    /\ Len(StatusesFor("validation")) = 1


\* the labels of the pass for a test
LabelsFor(t) == {l \in run.labels : l[1] = t}

\* C23: after the pass every test that has a status, read from the commit or
\* set when the pass queued it, has the label of that status in the pass's
\* label set and no other label, and "unrecognised" has no label.
C23_OneLabelPerCheck ==
    pc = "acted" =>
        /\ \A t \in Tests :
              t \in DOMAIN prConditions.prev_test_statuses
                 => LabelsFor(t) = {Label(t, prConditions.prev_test_statuses[t])}
        /\ LabelsFor(UNRECOGNISED) = {}


\* the greeting, "tests triggered" and "already triggered" messages the pass
\* hands to post_on_pr, by name
Replies ==
    LET es == SelectSeq(CommentEffects,
                        LAMBDA e : e.body.msg \in {"PR_SALUTATION",
                                                   "TESTS_TRIGGERED_CONFIRMATION",
                                                   "TESTS_ALREADY_TRIGGERED"})
    IN [i \in DOMAIN es |-> es[i].body.msg]

\* the one message the priority of lines 427-461 selects
ReplyDue ==
    IF prConditions.newPR THEN <<"PR_SALUTATION">>
    ELSE IF Len(run.tests_to_trigger) > 0 THEN <<"TESTS_TRIGGERED_CONFIRMATION">>
    ELSE IF Len(run.tests_already_triggered) > 0 THEN <<"TESTS_ALREADY_TRIGGERED">>
    ELSE <<>>

\* C24 as stated: the pass posts the greeting when the PR is new, otherwise
\* "tests triggered" when a test is queued, otherwise "already triggered" when
\* a request was deduplicated, otherwise none of the three; never two.
C24_OneReply == pc = "acted" => Replies = ReplyDue

\* C24: the same for a pass that is no dry run; a dry run posts none of the
\* three messages.
C24_OneReplyUnlessDryRun ==
    pc = "acted" => Replies = IF dryRun THEN <<>> ELSE ReplyDue

\* a new PR whose tests are queued gets the greeting alone
C24_Witness ==
    /\ pc = "acted"
    /\ ~dryRun
    /\ prConditions.newPR
    /\ Len(run.tests_to_trigger) > 0
    /\ Replies = <<"PR_SALUTATION">>


\* C25: a pass (no dry run) whose stall loop reset a test posts one stall
\* notice that names every test the loop reset, on a new PR and with tests
\* queued as well; a pass whose stall loop reset none posts no stall notice.
C25_StallNoticeNamesEveryReset ==
    (pc = "acted" /\ ~dryRun) =>
        IF run.stalled_jobs = <<>>
        THEN StallNotices = <<>>
        ELSE /\ Len(StallNotices) = 1
             /\ StallNotices[1].body.queued = run.stalled_jobs


-----------------------------------------------------------------------------
(* Passes over a pull request whose latest commit is dated now, exactly the  *)
(* allowed 120 seconds ahead of the clock, or a minute more.                 *)

FutureDates == {MaxTime, MaxTime + FutureSlack, MaxTime + FutureSlack + 1}

FutureInit ==
    /\ pr \in { p \in [ trustedAuthor : BOOLEAN,
                        requiredTests : {Tests},
                        lastCommitDate : FutureDates,
                        AUTO_TRIGGER_ON_OPEN : BOOLEAN,
                        state_labels : StateLabelTables ] :
                  p.trustedAuthor \/ p.AUTO_TRIGGER_ON_OPEN }
    /\ commitStatuses \in StatusHistories("build", MaxHistory)
    /\ issueLabels = {}
    /\ issueComments \in {<<>>, <<Greeting>>}
    /\ baseHead = BaseCommits[1]
    /\ now = MaxTime
    /\ pc = "idle"
    /\ dryRun \in BOOLEAN
    /\ issue = [labels |-> {}]
    /\ prConditions = NewBuilder(BaseCommits[1])
    /\ run = Locals(prConditions)
    /\ ghost = NoGhost

FutureSpec == FutureInit /\ [][HistoryNext]_vars

FutureNotices == Notices("FUTURE_COMMIT")

\* the latest commit is dated more than 120 seconds after the clock
FutureDated == pr.lastCommitDate - now > FutureSlack

\* C26: a pass (no dry run) hands the future-commit notice to post_on_pr
\* exactly when the latest commit is dated more than 120 seconds ahead and
\* build has no existing status, the case of build with no status on the
\* commit at all included.
C26_FutureCommitNotice ==
    (Done /\ ~dryRun) =>
        (Len(FutureNotices) = 1
            <=> FutureDated /\ ~Truthy(run.c.test_status_exists, "build"))


-----------------------------------------------------------------------------
(* The loop over the comments of determineIfBotInvoked, a comment at a time. *)
(* The issue carries two comments, by the bot, the author, a developer or a  *)
(* guest, written before or after the latest commit.                         *)

CommentPool ==
    { Comment(u, body, t) : u \in Writers \cup {"author"}, body \in UserBodies,
                            t \in 0..MaxTime }
    \cup { Comment(BOT, Body("PR_SALUTATION"), t) : t \in 0..MaxTime }

CommentsInit ==
    /\ pr \in [ trustedAuthor : BOOLEAN,
                requiredTests : {Tests},
                lastCommitDate : 0..1,
                AUTO_TRIGGER_ON_OPEN : {TRUE},
                state_labels : {[s \in GitStates |-> s]} ]
    /\ commitStatuses = <<>>
    /\ issueLabels = {}
    /\ issueComments \in { h \in CommentPool \X CommentPool :
                              h[1].created_at <= h[2].created_at }
    /\ baseHead = BaseCommits[1]
    /\ now = MaxTime
    /\ pc = "comments"
    /\ dryRun = FALSE
    /\ issue = [labels |-> {}]
    /\ prConditions = determineIfNew(NewBuilder(baseHead), issueComments)
    /\ run = Locals(prConditions)
    /\ ghost = [read |-> 0]

\* one turn of the loop of determineIfBotInvoked (lines 326-373)
InvokeNext ==
    /\ pc = "comments"
    /\ ghost.read < Len(issueComments)
    /\ prConditions' = InvokeComment(prConditions, issueComments[ghost.read + 1])
    /\ run' = Locals(prConditions')
    /\ ghost' = [ghost EXCEPT !.read = @ + 1]
    /\ UNCHANGED <<commitStatuses, issueLabels, issueComments, baseHead, now, pr,
                   pc, dryRun, issue>>

CommentsSpec == CommentsInit /\ [][InvokeNext]_vars

\* the comment the turn just taken has read
JustInvoked == issueComments[ghost'.read]

\* the four lists of the builder
CommandLists(b) ==
    <<b.botInvokingComments, b.testsRequested, b.testTriggerResults, b.extraEnvs>>

BotTimes == {issueComments[i].created_at :
                i \in {j \in DOMAIN issueComments : issueComments[j].user = BOT}}

\* the comment is no older than the latest commit and than the bot's latest
\* comment, and its author is authorised
Qualifies(c) ==
    /\ c.created_at >= pr.lastCommitDate
    /\ \A t \in BotTimes : c.created_at >= t
    /\ c.user \in prConditions.authorizedUsers

\* C27: the loop keeps a comment that is not the bot's exactly when it is no
\* older than the latest commit, no older than the bot's latest comment, and
\* by an authorised user; a comment of the bot is never kept and only joins
\* previousBotComments.
C27_KeptIffQualifies ==
    [][pc = "comments" =>
          LET c == JustInvoked
              kept == prConditions'.botInvokingComments
                         = Append(prConditions.botInvokingComments, c)
          IN /\ c.user # BOT => (kept <=> Qualifies(c))
             /\ ~kept => CommandLists(prConditions') = CommandLists(prConditions)
             /\ c.user = BOT =>
                   /\ ~kept
                   /\ prConditions' =
                         [prConditions EXCEPT !.previousBotComments = @ \cup {c.body}]]_vars

\* a developer's comment written at the time of the bot's comment was kept
C27_Witness ==
    /\ ghost.read = 2
    /\ issueComments[1].user = BOT
    /\ issueComments[2].user = "dev"
    /\ issueComments[2].created_at = issueComments[1].created_at
    /\ prConditions.botInvokingComments = <<issueComments[2]>>
    /\ prConditions.previousBotComments = {issueComments[1].body}


\* the result C28 gives a kept comment
ResultDue(c) ==
    LET r == check_test_cmd_mu2e(c.body) IN
    IF r.found THEN TestTriggerResult.SUCCESS
    ELSE IF r.raises = "ValueError" THEN TestTriggerResult.INVALIDINPUT
    ELSE IF r.raises = "Exception" THEN TestTriggerResult.GENERICFAIL
    ELSE IF r.mentioned THEN TestTriggerResult.NOCOMMAND
    ELSE TestTriggerResult.GENERICFAIL

\* C28: a kept comment adds one entry to each of the four lists, which stay
\* of one length, and its result is success for a command, invalidinput when
\* the parser raised ValueError, genericfail when it raised anything else,
\* and nocommand when the bot was mentioned with no valid command.
C28_OneCommandPerKeptComment ==
    [][(pc = "comments"
        /\ prConditions'.botInvokingComments
              = Append(prConditions.botInvokingComments, JustInvoked)) =>
          /\ \A i \in 1..4 :
                Len(CommandLists(prConditions')[i])
                   = Len(prConditions.botInvokingComments) + 1
          /\ prConditions'.testTriggerResults
                = Append(prConditions.testTriggerResults, ResultDue(JustInvoked))]_vars


\* C29: a dry run creates no status, posts no comment, edits no labels and
\* hands no test to the build queue, stalled tests or not.
C29_DryRunEmitsNothing == (pc = "acted" /\ dryRun) => run.effects = <<>>


\* C30: when the base-head-change stage has reset build to pending, the
\* stall loop of the same pass does not reset build to stalled: build stays
\* out of stalled_jobs and the pass creates no "stalled" status for build.
C30_BaseResetNeverStalls ==
    (pc \in {"stall", "orphan", "trigger", "acted"} /\ run.doNotifyBaseHEADChanged) =>
        /\ "build" \notin Range(run.stalled_jobs)
        /\ <<"build", "stall">> \notin ghost.fell
        /\ Len(StallStatuses("build")) = 0

\* build, triggered once and long ago, was reset by the base-head-change
\* stage and validation by the stall loop
C30_Witness ==
    /\ pc = "acted"
    /\ run.doNotifyBaseHEADChanged
    /\ <<"build", "base">> \in ghost.fell
    /\ run.stalled_jobs = <<"validation">>
    /\ now - prConditions.commitStatusTime["build"] > get_stall_time("build")

====
